---- MODULE Spec2Model ----
(***************************************************************************)
(* Model of the product-create pipeline of src/routers/products.js:        *)
(* normalizeProductInput, buildOptionsAndVariants, buildMedia, gqlEscape   *)
(* and formatTags, applied in the order of the POST /create handler; of    *)
(* the handler as a whole with its two outbound calls (SpecHandler); and   *)
(* of the credential store it shares with /shopify/callback and            *)
(* /shopify/authenticated of src/index.js (SpecStore).                     *)
(*                                                                         *)
(* JSON values are records tagged with their JavaScript type.  A string    *)
(* is a sequence of one-character strings, so that trimming, prefix tests, *)
(* escaping, parsing and formatting are computed character by character.   *)
(* A number is held in thousandths (fixed point); the price strings drawn  *)
(* as inputs have at most three fractional digits and never end in a 5 in  *)
(* the third one, so that toFixed(2) does not depend on the binary         *)
(* representation of the number.                                           *)
(***************************************************************************)
EXTENDS Integers, Sequences, FiniteSets, TLC

VARIABLES input, pc, normalized, expanded, media, tagsOut, mutation,
          shop, accessToken, accessTokens, calls, productData, mediaResponse,
          responses, callback, authenticated

\* The state of one request beyond the pipeline: the shop it names, the
\* credential it read for that shop, the credential store, the outbound
\* calls issued so far, the payload of the create call's answer, the media
\* result and the HTTP responses sent.
hvars ==
  <<shop, accessToken, accessTokens, calls, productData, mediaResponse,
    responses>>

\* The state of one /shopify/callback request and of one
\* /shopify/authenticated request of src/index.js, which share the
\* credential store with the handler.
ovars == <<callback, authenticated>>

vars ==
  <<input, pc, normalized, expanded, media, tagsOut, mutation, hvars, ovars>>

(***************************************************************************)
(* Bounds of the inputs.                                                   *)
(***************************************************************************)
MaxAttrs == 2
MaxValues == 2
MaxTags == 2
MaxMedia == 2
MaxTitleLen == 3

(***************************************************************************)
(* JSON values.                                                            *)
(***************************************************************************)
Undefined == [type |-> "undefined"]
Null == [type |-> "null"]
NaN == [type |-> "nan"]
Str(s) == [type |-> "string", chars |-> s]
Num(m) == [type |-> "number", milli |-> m]
Arr(s) == [type |-> "array", items |-> s]
Bool(b) == [type |-> "boolean", val |-> b]

\* JavaScript truthiness (the conditions `x &&`, `x ?`, `x ||`, `if (x)`).
Truthy(v) ==
  CASE v.type = "undefined" -> FALSE
    [] v.type = "null" -> FALSE
    [] v.type = "nan" -> FALSE
    [] v.type = "string" -> v.chars # <<>>
    [] v.type = "number" -> v.milli # 0
    [] v.type = "boolean" -> v.val
    [] OTHER -> TRUE

\* typeof v === 'object' (true of null, of arrays and of objects).
TypeofObject(v) == v.type \in {"null", "array", "object"}

IsArray(v) == v.type = "array"

\* a || b
OrElse(a, b) == IF Truthy(a) THEN a ELSE b

(***************************************************************************)
(* Sequence helpers: Array.prototype.filter / map / join.                  *)
(***************************************************************************)
RECURSIVE SelectIdx(_, _)
SelectIdx(s, keep) ==
  IF s = <<>> THEN <<>>
  ELSE (IF keep[1] THEN <<s[1]>> ELSE <<>>)
         \o SelectIdx(Tail(s), Tail(keep))

RECURSIVE Flatten(_)
Flatten(ss) == IF ss = <<>> THEN <<>> ELSE ss[1] \o Flatten(Tail(ss))

RECURSIVE Join(_, _)
Join(strs, sep) ==
  IF strs = <<>> THEN <<>>
  ELSE IF Len(strs) = 1 THEN strs[1]
  ELSE strs[1] \o sep \o Join(Tail(strs), sep)

(***************************************************************************)
(* Characters and string primitives.                                       *)
(***************************************************************************)
Digits == <<"0", "1", "2", "3", "4", "5", "6", "7", "8", "9">>
IsDigit(c) == \E d \in DOMAIN Digits : Digits[d] = c
DigitVal(c) == (CHOOSE d \in DOMAIN Digits : Digits[d] = c) - 1
IsSpace(c) == c \in {" ", "\t", "\n"}

RECURSIVE TrimStart(_)
TrimStart(s) ==
  IF s # <<>> /\ IsSpace(s[1]) THEN TrimStart(Tail(s)) ELSE s

RECURSIVE TrimEnd(_)
TrimEnd(s) ==
  IF s # <<>> /\ IsSpace(s[Len(s)]) THEN TrimEnd(SubSeq(s, 1, Len(s) - 1))
  ELSE s

\* String.prototype.trim
Trim(s) == TrimEnd(TrimStart(s))

\* String.prototype.startsWith
StartsWith(s, p) == Len(s) >= Len(p) /\ SubSeq(s, 1, Len(p)) = p

\* String(v) / template-literal conversion of a JSON value
ToStr(v) ==
  CASE v.type = "string" -> v.chars
    [] v.type = "undefined" -> <<"u", "n", "d", "e", "f", "i", "n", "e", "d">>
    [] v.type = "null" -> <<"n", "u", "l", "l">>
    [] v.type = "object" -> <<"[", "o", "b", "j", "e", "c", "t", " ",
                              "O", "b", "j", "e", "c", "t", "]">>
    [] OTHER -> <<"?">>

(***************************************************************************)
(* parseFloat and Number.prototype.toFixed(2).                             *)
(***************************************************************************)
RECURSIVE DigitPrefix(_)
DigitPrefix(s) ==
  IF s # <<>> /\ IsDigit(s[1]) THEN <<s[1]>> \o DigitPrefix(Tail(s))
  ELSE <<>>

RECURSIVE DigitsToInt(_)
DigitsToInt(ds) ==
  IF ds = <<>> THEN 0
  ELSE 10 * DigitsToInt(SubSeq(ds, 1, Len(ds) - 1)) + DigitVal(ds[Len(ds)])

\* The first three fractional digits, as thousandths.
FracMilli(ds) ==
  LET d(i) == IF i <= Len(ds) THEN DigitVal(ds[i]) ELSE 0
  IN 100 * d(1) + 10 * d(2) + d(3)

ParseChars(s) ==
  LET t == TrimStart(s)
      neg == t # <<>> /\ t[1] = "-"
      signed == t # <<>> /\ t[1] \in {"-", "+"}
      body == IF signed THEN Tail(t) ELSE t
      ip == DigitPrefix(body)
      rest == SubSeq(body, Len(ip) + 1, Len(body))
      fp == IF rest # <<>> /\ rest[1] = "." THEN DigitPrefix(Tail(rest))
            ELSE <<>>
      mag == 1000 * DigitsToInt(ip) + FracMilli(fp)
  IN IF ip = <<>> /\ fp = <<>> THEN NaN
     ELSE Num(IF neg THEN 0 - mag ELSE mag)

parseFloat(v) ==
  CASE v.type = "string" -> ParseChars(v.chars)
    [] v.type = "number" -> v
    [] OTHER -> NaN

RECURSIVE IntToChars(_)
IntToChars(n) ==
  IF n < 10 THEN <<Digits[n + 1]>>
  ELSE IntToChars(n \div 10) \o <<Digits[(n % 10) + 1]>>

toFixed2(n) ==
  LET mag == IF n.milli < 0 THEN 0 - n.milli ELSE n.milli
      cents == (mag + 5) \div 10
  IN (IF n.milli < 0 THEN <<"-">> ELSE <<>>)
       \o IntToChars(cents \div 100)
       \o <<".", Digits[((cents \div 10) % 10) + 1], Digits[(cents % 10) + 1]>>

\* MathMax taking the first price instead of the largest.
MathFirst(ns) == ns[1]

RECURSIVE MathMax(_)
MathMax(ns) ==
  IF Len(ns) = 1 THEN ns[1]
  ELSE LET m == MathMax(Tail(ns))
       IN IF ns[1].milli >= m.milli THEN ns[1] ELSE m

(***************************************************************************)
(* buildOptionsAndVariants (src/routers/products.js, lines 109-200).       *)
(***************************************************************************)
\* obj.f, undefined when the object has no such property
Get(v, f) == IF f \in DOMAIN v THEN v[f] ELSE Undefined

S_Default == <<"D", "e", "f", "a", "u", "l", "t">>
S_Zero == <<"0">>
S_Dash == <<"-">>

\* The inner loop of the reduce callback: one accItem against every currItem.
RECURSIVE CartInner(_, _)
CartInner(accItem, curr) ==
  IF curr = <<>> THEN <<>>
  ELSE <<Append(accItem, curr[1])>> \o CartInner(accItem, Tail(curr))

\* CartStep with the two loops exchanged.
RECURSIVE CartStepSwapped(_, _)
CartStepSwapped(acc, curr) ==
  IF curr = <<>> THEN <<>>
  ELSE [i \in DOMAIN acc |-> Append(acc[i], curr[1])]
         \o CartStepSwapped(acc, Tail(curr))

\* The reduce callback: for each accItem, for each currItem, push.
RECURSIVE CartStep(_, _)
CartStep(acc, curr) ==
  IF acc = <<>> THEN <<>>
  ELSE CartInner(acc[1], curr) \o CartStep(Tail(acc), curr)

RECURSIVE CartReduce(_, _)
CartReduce(acc, arrays) ==
  IF arrays = <<>> THEN acc
  ELSE CartReduce(CartStep(acc, arrays[1]), Tail(arrays))

cartesian(arrays) ==
  IF arrays = <<>> THEN << <<>> >>
  ELSE LET validArrays ==
             SelectIdx(arrays, [i \in DOMAIN arrays |-> arrays[i] # <<>>])
       IN IF validArrays = <<>> THEN << <<>> >>
          ELSE IF Len(validArrays) = 1
            THEN [i \in DOMAIN validArrays[1] |-> <<validArrays[1][i]>>]
          ELSE CartReduce(<< <<>> >>, validArrays)

\* The filter of line 145: val && typeof val === 'object'
ValidValue(val) == Truthy(val) /\ TypeofObject(val)

\* Lines 141-146: the value list of one attribute.
valuesOf(product, attr) ==
  IF ~Truthy(Get(attr, "values")) \/ ~IsArray(attr.values)
  THEN << [type |-> "object", name |-> Str(S_Default),
           price |-> OrElse(Get(product, "price"), Str(S_Zero))] >>
  ELSE SelectIdx(attr.values.items,
                 [i \in DOMAIN attr.values.items |->
                    ValidValue(attr.values.items[i])])

\* Lines 160-165: the price each value of a combination contributes; NaN is
\* what the trailing filter drops.
pricesOf(product, combo) ==
  LET each == [i \in DOMAIN combo |->
                 IF ValidValue(combo[i]) /\ Truthy(Get(combo[i], "price"))
                 THEN parseFloat(combo[i].price)
                 ELSE parseFloat(OrElse(Get(product, "price"), Str(S_Zero)))]
  IN SelectIdx(each, [i \in DOMAIN each |-> each[i] # NaN])

\* skuOf without the guard of line 173: an empty join when no value has a SKU.
skuOfUnguarded(combo) ==
  LET picked == [i \in DOMAIN combo |->
                   IF Truthy(combo[i]) /\ Truthy(Get(combo[i], "sku"))
                   THEN combo[i].sku ELSE Null]
      skus == SelectIdx(picked, [i \in DOMAIN picked |-> Truthy(picked[i])])
  IN Str(Join([i \in DOMAIN skus |-> ToStr(skus[i])], S_Dash))

\* Lines 170-173
skuOf(combo) ==
  LET picked == [i \in DOMAIN combo |->
                   IF Truthy(combo[i]) /\ Truthy(Get(combo[i], "sku"))
                   THEN combo[i].sku ELSE Null]
      skus == SelectIdx(picked, [i \in DOMAIN picked |-> Truthy(picked[i])])
  IN IF Len(skus) > 0
     THEN Str(Join([i \in DOMAIN skus |-> ToStr(skus[i])], S_Dash))
     ELSE Undefined

\* Lines 176-181
optionNamesOf(combo) ==
  [i \in DOMAIN combo |->
     IF ValidValue(combo[i]) /\ Truthy(Get(combo[i], "name"))
     THEN combo[i].name ELSE Str(S_Default)]

\* Lines 151-188: one combination to one variant.
variantOf(product, combo) ==
  LET prices == pricesOf(product, combo)
      variantPrice == IF Len(prices) > 0 THEN MathMax(prices) ELSE Num(0)
  IN [price |-> Str(toFixed2(variantPrice)),
      sku |-> skuOf(combo),
      options |-> optionNamesOf(combo)]

\* Lines 190-197: the variant pushed when the map produced none.
defaultVariant(product, options) ==
  LET p == parseFloat(OrElse(Get(product, "price"), Str(S_Zero)))
  IN [price |-> IF p = NaN THEN Str(<<"N", "a", "N">>) ELSE Str(toFixed2(p)),
      sku |-> Undefined,
      options |-> [i \in DOMAIN options |-> Str(S_Default)]]

\* Lines 141-149: the combinations the variants are mapped from.
combinationsOf(product) ==
  LET attrs == product.attributes.items
  IN cartesian([i \in DOMAIN attrs |-> valuesOf(product, attrs[i])])

buildOptionsAndVariants(product) ==
  IF ~Truthy(Get(product, "attributes")) \/ ~IsArray(product.attributes)
       \/ Len(product.attributes.items) = 0
  THEN [options |-> <<>>, variants |-> <<>>]
  ELSE LET attrs == product.attributes.items
           options == [i \in DOMAIN attrs |-> Get(attrs[i], "name")]
           combinations == combinationsOf(product)
           variants == [i \in DOMAIN combinations |->
                          variantOf(product, combinations[i])]
       IN [options |-> options,
           variants |-> IF Len(variants) = 0
                        THEN <<defaultVariant(product, options)>>
                        ELSE variants]

(***************************************************************************)
(* normalizeProductInput (src/routers/products.js, lines 10-106).          *)
(* An operator that models code which can raise returns Threw instead.     *)
(***************************************************************************)
Threw == [type |-> "threw"]

Nullish(v) == v.type \in {"undefined", "null"}

S_Marker == <<"s", "p", "a", "d", "e", "-", "p", "r", "o", "d", "u", "c", "t">>
S_Space == <<" ">>

\* [...new Set(tags)]: the first occurrence of every element, in order.
RECURSIVE SetDedup(_)
SetDedup(tags) ==
  IF tags = <<>> THEN <<>>
  ELSE LET init == SetDedup(SubSeq(tags, 1, Len(tags) - 1))
           last == tags[Len(tags)]
       IN IF \E i \in DOMAIN init : init[i] = last THEN init
          ELSE Append(init, last)

\* Lines 17-26
nestedValue(val) ==
  [type |-> "object", name |-> Get(val, "name"), price |-> Get(val, "price"),
   compare_price |-> Get(val, "compare_price"), sku |-> Get(val, "sku"),
   images |-> Get(val, "images")]

nestedAttributes(sample) ==
  LET sa == sample.sample_attributes.items
  IN [i \in DOMAIN sa |->
        [type |-> "object", name |-> Get(sa[i], "name"),
         values |-> Arr([j \in DOMAIN sa[i].values.items |->
                           nestedValue(sa[i].values.items[j])])]]

\* What makes lines 17-41 raise a TypeError: a property read of undefined or
\* null, or .map on something that is not an array.
nestedThrows(sample) ==
  \/ ~IsArray(sample.sample_attributes)
  \/ \E i \in DOMAIN sample.sample_attributes.items :
       LET attr == sample.sample_attributes.items[i]
       IN \/ Nullish(attr)
          \/ ~IsArray(Get(attr, "values"))
          \/ \E j \in DOMAIN attr.values.items :
               LET val == attr.values.items[j]
               IN \/ Nullish(val)
                  \/ /\ Truthy(Get(val, "images"))
                     /\ \/ ~IsArray(val.images)
                        \/ \E k \in DOMAIN val.images.items :
                             Nullish(val.images.items[k])
  \/ /\ Truthy(Get(sample, "sample_media"))
     /\ \/ ~IsArray(sample.sample_media)
        \/ \E k \in DOMAIN sample.sample_media.items :
             Nullish(sample.sample_media.items[k])

\* nestedMedia with the two spreads of lines 30 and 34 exchanged.
nestedMediaImagesFirst(sample, attributes) ==
  LET sm == IF Truthy(Get(sample, "sample_media"))
            THEN sample.sample_media.items ELSE <<>>
      top == [k \in DOMAIN sm |->
                [type |-> "object", media |-> Get(sm[k], "media"),
                 is_featured |-> Get(sm[k], "is_featured")]]
      imagesOf(val) == IF Truthy(val.images) THEN val.images.items ELSE <<>>
      ofValue(val) == [k \in DOMAIN imagesOf(val) |->
                         [type |-> "object",
                          media |-> Get(imagesOf(val)[k], "image")]]
      ofAttr(attr) == Flatten([j \in DOMAIN attr.values.items |->
                                 ofValue(attr.values.items[j])])
  IN Flatten([i \in DOMAIN attributes |-> ofAttr(attributes[i])]) \o top

\* Lines 29-41
nestedMedia(sample, attributes) ==
  LET sm == IF Truthy(Get(sample, "sample_media"))
            THEN sample.sample_media.items ELSE <<>>
      top == [k \in DOMAIN sm |->
                [type |-> "object", media |-> Get(sm[k], "media"),
                 is_featured |-> Get(sm[k], "is_featured")]]
      imagesOf(val) == IF Truthy(val.images) THEN val.images.items ELSE <<>>
      ofValue(val) == [k \in DOMAIN imagesOf(val) |->
                         [type |-> "object",
                          media |-> Get(imagesOf(val)[k], "image")]]
      ofAttr(attr) == Flatten([j \in DOMAIN attr.values.items |->
                                 ofValue(attr.values.items[j])])
  IN top \o Flatten([i \in DOMAIN attributes |-> ofAttr(attributes[i])])

\* Line 58: `${first_name} ${last_name}`.trim()
manufacturerTag(m) ==
  Str(Trim(ToStr(Get(m, "first_name")) \o S_Space \o ToStr(Get(m, "last_name"))))

\* Lines 44-69: the tag list before the Set of line 80.
nestedTags(inp, sample, attributes) ==
  <<Str(S_Marker)>>
    \o (IF Truthy(Get(inp, "tags"))
        THEN (IF IsArray(inp.tags) THEN inp.tags.items ELSE <<inp.tags>>)
        ELSE <<>>)
    \o (IF Truthy(Get(inp, "store")) /\ Truthy(Get(inp.store, "name"))
        THEN <<inp.store.name>> ELSE <<>>)
    \o (IF Truthy(Get(sample, "manufacturer"))
             /\ Truthy(Get(sample.manufacturer, "first_name"))
        THEN <<manufacturerTag(sample.manufacturer)>> ELSE <<>>)
    \o [i \in DOMAIN attributes |-> attributes[i].name]
    \o (IF Truthy(Get(inp, "name")) THEN <<inp.name>> ELSE <<>>)

normalizeNested(inp) ==
  LET sample == inp.sample
      attributes == nestedAttributes(sample)
  IN IF nestedThrows(sample) THEN Threw
     ELSE [type |-> "object",
           id |-> Get(inp, "id"),
           title |-> OrElse(Get(inp, "name"), Get(sample, "title")),
           description |->
             OrElse(Get(inp, "description"), Get(sample, "description")),
           attributes |-> Arr(attributes),
           media |-> Arr(nestedMedia(sample, attributes)),
           stock |-> Get(inp, "stock"),
           is_active |-> Get(inp, "is_active"),
           price_range |-> Get(inp, "price_range"),
           tags |-> Arr(SetDedup(nestedTags(inp, sample, attributes)))]

\* Lines 87-92
flatValues(values) ==
  IF IsArray(values) /\ values.items # <<>> /\ TypeofObject(values.items[1])
  THEN values
  ELSE Arr([j \in DOMAIN values.items |->
              [type |-> "object", name |-> values.items[j]]])

flatThrows(inp) ==
  \E i \in DOMAIN inp.attributes.items :
    LET attr == inp.attributes.items[i]
    IN Nullish(attr) \/ ~IsArray(Get(attr, "values"))

normalizeFlat(inp) ==
  IF flatThrows(inp) THEN Threw
  ELSE [inp EXCEPT
          !.attributes =
            Arr([i \in DOMAIN inp.attributes.items |->
                   [type |-> "object",
                    name |-> Get(inp.attributes.items[i], "name"),
                    values |-> flatValues(inp.attributes.items[i].values)]]),
          !.media = OrElse(inp.media, Arr(<<>>)),
          !.tags = OrElse(inp.tags, Arr(<<>>))]

normalizeDefault(inp) ==
  [inp EXCEPT !.attributes = OrElse(inp.attributes, Arr(<<>>)),
              !.media = OrElse(inp.media, Arr(<<>>)),
              !.tags = OrElse(inp.tags, Arr(<<>>))]

\* The shape line 12 and line 84 dispatch on.
shapeOf(inp) ==
  IF Truthy(Get(inp, "sample")) /\ Truthy(Get(inp.sample, "sample_attributes"))
  THEN "nested"
  ELSE IF IsArray(Get(inp, "attributes")) THEN "flat" ELSE "default"

normalizeProductInput(inp) ==
  CASE Nullish(inp) -> Threw
    [] shapeOf(inp) = "nested" -> normalizeNested(inp)
    [] shapeOf(inp) = "flat" -> normalizeFlat(inp)
    [] OTHER -> normalizeDefault(inp)

(***************************************************************************)
(* buildMedia, gqlEscape, formatTags (lines 203-246).                      *)
(***************************************************************************)
\* Line 7, with SPADE_HOST_URL unset.
base_image_url ==
  <<"h", "t", "t", "p", ":", "/", "/", "l", "o", "c", "a", "l", "h", "o",
    "s", "t", ":", "8", "0", "0", "0", "/", "m", "e", "d", "i", "a">>
S_http == <<"h", "t", "t", "p">>
S_mediaRoot == <<"/", "m", "e", "d", "i", "a", "/">>
S_Slash == <<"/">>

\* Line 207: m.media || m.image || ''
mediaUrlOf(m) == OrElse(OrElse(Get(m, "media"), Get(m, "image")), Str(<<>>))

\* Lines 210-217
resolveUrl(u) ==
  IF StartsWith(u, S_http) THEN u
  ELSE IF StartsWith(u, S_mediaRoot) THEN base_image_url \o u
  ELSE base_image_url \o S_Slash \o u

S_IMAGE == <<"I", "M", "A", "G", "E">>

buildMediaThrows(product) ==
  /\ Truthy(Get(product, "media"))
  /\ \/ product.media.type = "object"
     \/ /\ IsArray(product.media)
        /\ \E k \in DOMAIN product.media.items :
             \/ Nullish(product.media.items[k])
             \/ mediaUrlOf(product.media.items[k]).type # "string"
     \/ product.media.type = "string"

buildMedia(product) ==
  IF ~Truthy(Get(product, "media")) THEN <<>>
  ELSE IF IsArray(product.media) /\ Len(product.media.items) = 0 THEN <<>>
  ELSE IF buildMediaThrows(product) THEN Threw
  ELSE [k \in DOMAIN product.media.items |->
          [mediaContentType |-> S_IMAGE,
           originalSource |->
             resolveUrl(mediaUrlOf(product.media.items[k]).chars)]]

\* Line 228: every backslash doubled, then every double quote escaped.
RECURSIVE ReplaceChar(_, _, _)
ReplaceChar(s, c, by) ==
  IF s = <<>> THEN <<>>
  ELSE (IF s[1] = c THEN by ELSE <<s[1]>>) \o ReplaceChar(Tail(s), c, by)

\* gqlEscape with the two replacements of line 228 in the other order.
gqlEscapeQuotesFirst(s) ==
  ReplaceChar(ReplaceChar(s, "\"", <<"\\", "\"">>), "\\", <<"\\", "\\">>)

gqlEscape(s) ==
  ReplaceChar(ReplaceChar(s, "\\", <<"\\", "\\">>), "\"", <<"\\", "\"">>)

\* Line 236
tagArrayOf(tags) == IF IsArray(tags) THEN tags.items ELSE <<tags>>

\* Line 240 calls tag.trim() on every truthy tag.
formatTagsThrows(tags) ==
  \E i \in DOMAIN tagArrayOf(tags) :
    Truthy(tagArrayOf(tags)[i]) /\ tagArrayOf(tags)[i].type # "string"

\* Lines 240-241 without the escaping: the tags kept, trimmed.
trimmedTags(tags) ==
  LET tagArray == tagArrayOf(tags)
      kept == SelectIdx(tagArray,
                [i \in DOMAIN tagArray |->
                   Truthy(tagArray[i]) /\ Trim(tagArray[i].chars) # <<>>])
  IN [i \in DOMAIN kept |-> Trim(kept[i].chars)]

\* Lines 239-241
cleanedTags(tags) ==
  [i \in DOMAIN trimmedTags(tags) |-> gqlEscape(trimmedTags(tags)[i])]

S_TagsOpen == <<"t", "a", "g", "s", ":", " ", "[">>
S_TagsClose == <<"]", ",">>
S_CommaSpace == <<",", " ">>
Quoted(s) == <<"\"">> \o s \o <<"\"">>

\* The list formatTags renders and the text it returns.
formatTags(tags) ==
  IF ~Truthy(tags) \/ (IsArray(tags) /\ Len(tags.items) = 0)
  THEN [cleaned |-> <<>>, text |-> <<>>]
  ELSE IF formatTagsThrows(tags) THEN Threw
  ELSE LET cleaned == cleanedTags(tags)
       IN [cleaned |-> cleaned,
           text |-> IF Len(cleaned) = 0 THEN <<>>
                    ELSE S_TagsOpen
                           \o Join([i \in DOMAIN cleaned |-> Quoted(cleaned[i])],
                                   S_CommaSpace)
                           \o S_TagsClose]

(***************************************************************************)
(* The two request bodies of the handler (lines 264-280 and 326-335).      *)
(* A body is the sequence of its interpolations: the field each one fills, *)
(* whether it stands between double quotes, whether the text went          *)
(* through gqlEscape, where the text came from, and the text.              *)
(***************************************************************************)
S_ACTIVE == <<"A", "C", "T", "I", "V", "E">>
S_DRAFT == <<"D", "R", "A", "F", "T">>

Slot(f, q, e, t) == [field |-> f, quoted |-> q, escaped |-> e, text |-> t]

\* Line 270
statusOf(product) ==
  IF Get(product, "is_active") # Undefined
  THEN <<Slot("status", FALSE, FALSE,
              IF Truthy(product.is_active) THEN S_ACTIVE ELSE S_DRAFT)>>
  ELSE <<>>

\* Lines 274-278
variantSlots(variant) ==
  <<Slot("price", TRUE, FALSE, ToStr(variant.price))>>
    \o (IF Truthy(variant.sku)
        THEN <<Slot("sku", TRUE, TRUE, gqlEscape(ToStr(variant.sku)))>>
        ELSE <<>>)
    \o [i \in DOMAIN variant.options |->
          Slot("variantOption", TRUE, TRUE,
               gqlEscape(ToStr(variant.options[i])))]

\* Lines 268-278
mutationSlots(product, ov, tags) ==
  <<Slot("title", TRUE, TRUE, gqlEscape(ToStr(Get(product, "title"))))>>
    \o (IF Truthy(Get(product, "description"))
        THEN <<Slot("descriptionHtml", TRUE, TRUE,
                    gqlEscape(ToStr(product.description)))>>
        ELSE <<>>)
    \o statusOf(product)
    \o [i \in DOMAIN tags.cleaned |-> Slot("tags", TRUE, TRUE, tags.cleaned[i])]
    \o [i \in DOMAIN ov.options |->
          Slot("options", TRUE, TRUE, gqlEscape(ToStr(ov.options[i])))]
    \o Flatten([i \in DOMAIN ov.variants |-> variantSlots(ov.variants[i])])

\* Lines 329-334
mediaMutationSlots(id, mediaList) ==
  <<Slot("productId", TRUE, FALSE, ToStr(id))>>
    \o Flatten([i \in DOMAIN mediaList |->
                  <<Slot("mediaContentType", FALSE, FALSE,
                         mediaList[i].mediaContentType),
                    Slot("originalSource", TRUE, TRUE,
                         gqlEscape(mediaList[i].originalSource))>>])

(***************************************************************************)
(* The request bodies the model draws: the `product` of a POST /create.    *)
(***************************************************************************)
S_Red == <<"R", "e", "d">>
S_Yellow == <<"Y", "e", "l", "l", "o", "w">>
S_M == <<"M">>
S_L == <<"L">>
S_Color == <<"C", "o", "l", "o", "r">>
S_Size == <<"S", "i", "z", "e">>
S_ColorSp == <<"C", "o", "l", "o", "r", " ">>
S_Shop == <<"S", "h", "o", "p">>
S_Tee == <<"T", "e", "e">>
S_John == <<"J", "o", "h", "n">>
S_Doe == <<"D", "o", "e">>
S_R == <<"R">>
S_M1 == <<"M", "1">>
S_abc == <<"a", "b", "c">>
S_1999 == <<"1", "9", ".", "9", "9">>
S_21996 == <<"2", "1", ".", "9", "9", "6">>
S_Neg5 == <<"-", "5">>
S_255 == <<"2", "5", ".", "5">>
S_Neg3 == <<"-", "3">>

Value(name, price, sku) ==
  [type |-> "object", name |-> name, price |-> price, sku |-> sku]

V_Red == Value(Str(S_Red), Str(S_1999), Str(S_R))
V_Yellow == Value(Str(S_Yellow), Undefined, Undefined)
V_M == Value(Str(S_M), Str(S_21996), Str(S_M1))
V_L == Value(Str(S_L), Str(S_Neg5), Undefined)
V_Odd == Value(Undefined, Str(S_abc), Str(<<>>))

\* The values and the name of the i-th attribute of a drawn product.
ValuePool(i) == IF i % 2 = 1 THEN {V_Red, V_Yellow, Null}
                ELSE {V_M, V_L, V_Odd}
AttrName(i) == IF i % 2 = 1 THEN Str(S_Color) ELSE Str(S_Size)

SeqsUpTo(S, n) == UNION {[1..k -> S] : k \in 0..n}

\* The sequences of at most n different elements of S.
DistinctSeqsUpTo(S, n) ==
  {s \in SeqsUpTo(S, n) : \A i, j \in DOMAIN s : i # j => s[i] # s[j]}

AttrsAt(i) ==
  {[type |-> "object", name |-> AttrName(i), values |-> Arr(vs)] :
     vs \in DistinctSeqsUpTo(ValuePool(i), MaxValues)}

RECURSIVE AttrSeqsOfLen(_)
AttrSeqsOfLen(k) ==
  IF k = 0 THEN {<<>>}
  ELSE {Append(s, a) : s \in AttrSeqsOfLen(k - 1), a \in AttrsAt(k)}

AttrArrays == {Arr(s) : s \in UNION {AttrSeqsOfLen(k) : k \in 0..MaxAttrs}}

ProductPrices == {Undefined, Str(S_255), Str(S_Neg3), Str(S_abc)}

BaseInput ==
  [type |-> "object", id |-> Undefined, name |-> Undefined,
   title |-> Str(S_Tee), description |-> Undefined, price |-> Undefined,
   tags |-> Undefined, store |-> Undefined, sample |-> Undefined,
   attributes |-> Undefined, media |-> Undefined, is_active |-> Undefined,
   stock |-> Undefined, price_range |-> Undefined]

\* Flat-attributes and default-shape products that vary what the expander
\* reads: the attributes, their values and the product-level price.
ExpandInputs ==
  {[BaseInput EXCEPT !.attributes = a, !.price = p] :
     a \in AttrArrays \cup {Undefined}, p \in ProductPrices}

TagStrings ==
  {Str(S_Color), Str(S_ColorSp), Str(S_Marker), Str(S_Space), Str(<<>>)}

TagInputs ==
  {Undefined} \cup TagStrings
    \cup {Arr(s) : s \in SeqsUpTo(TagStrings, MaxTags)}

Stores == {Undefined, [type |-> "object", name |-> Str(S_Shop)],
           [type |-> "object", name |-> Str(S_Color)]}

Manufacturers ==
  {Undefined,
   [type |-> "object", first_name |-> Str(S_John), last_name |-> Str(S_Doe)],
   [type |-> "object", first_name |-> Str(S_John), last_name |-> Str(<<>>)],
   [type |-> "object", first_name |-> Str(S_John)],
   [type |-> "object", last_name |-> Str(S_Doe)]}

ProductNames == {Undefined, Str(S_Shop)}

NamedAttrs(names) ==
  Arr([i \in DOMAIN names |->
         [type |-> "object", name |-> names[i], values |-> Arr(<<>>)]])

SampleAttrs ==
  {NamedAttrs(<<>>), NamedAttrs(<<Str(S_Color), Str(S_Size)>>)}

\* Nested-sample products that vary what the tags are assembled from.
NestedTagInputs ==
  {[BaseInput EXCEPT
      !.tags = t, !.store = st, !.name = n,
      !.sample = [type |-> "object", title |-> Str(S_Tee),
                  sample_attributes |-> sa, manufacturer |-> m]] :
     t \in TagInputs, st \in Stores, n \in ProductNames,
     sa \in SampleAttrs, m \in Manufacturers}

\* Flat-attributes and default-shape products with caller-supplied tags.
FlatTagInputs ==
  {[BaseInput EXCEPT !.tags = t, !.attributes = a] :
     t \in TagInputs, a \in {Undefined, Arr(<<>>)}}

S_a_png == <<"a", ".", "p", "n", "g">>
S_media_b == <<"/", "m", "e", "d", "i", "a", "/", "b", ".", "p", "n", "g">>
S_http_c == <<"h", "t", "t", "p", ":", "/", "/", "h", "/", "c", ".", "p", "n", "g">>
S_up_d == <<"/", "u", "p", "/", "d", ".", "p", "n", "g">>
S_i1 == <<"i", "1", ".", "p", "n", "g">>
S_i2 == <<"/", "m", "e", "d", "i", "a", "/", "i", "2", ".", "p", "n", "g">>
S_i3 == <<"i", "3", ".", "p", "n", "g">>

MediaRefs == {Str(S_a_png), Str(S_media_b), Str(S_http_c), Str(S_up_d)}

MediaEntry(ref) == [type |-> "object", media |-> ref]
Image(ref) == [type |-> "object", image |-> ref]

\* The values of the one attribute of a drawn sample that carries images.
ImageLists ==
  {Arr(s) : s \in DistinctSeqsUpTo({Image(Str(S_i1)), Image(Str(S_i2))}, 2)}

ImageAttrs ==
  {Arr(<<>>)}
    \cup {Arr(<<[type |-> "object", name |-> Str(S_Color),
                 values |-> Arr(<<[V_Red EXCEPT !.sku = Undefined]
                                     @@ [images |-> a],
                                  V_Yellow @@ [images |-> b]>>)]>>) :
            a \in ImageLists, b \in {Undefined, Arr(<<Image(Str(S_i3))>>)}}

\* Nested-sample products that vary the media: sample_media and the images
\* of the attribute values.
NestedMediaInputs ==
  {[BaseInput EXCEPT
      !.sample = [type |-> "object", title |-> Str(S_Tee),
                  sample_attributes |-> sa, sample_media |-> sm]] :
     sa \in ImageAttrs,
     sm \in {Undefined}
              \cup {Arr(s) : s \in DistinctSeqsUpTo(
                                     {MediaEntry(r) : r \in MediaRefs},
                                     MaxMedia)}}

\* Flat and default-shape products with a media list of their own.
FlatMediaInputs ==
  {[BaseInput EXCEPT !.media = Arr(s), !.attributes = a] :
     s \in DistinctSeqsUpTo({MediaEntry(r) : r \in MediaRefs}
                              \cup {Image(Str(S_i1))}, MaxMedia),
     a \in {Undefined, Arr(<<>>)}}

\* The characters gqlEscape treats specially, and one it does not.
TitleChars == {"\\", "\"", "a"}

Titles == {Str(t) : t \in SeqsUpTo(TitleChars, MaxTitleLen)}

\* Default-shape products that vary the free text and the is_active flag.
TextInputs ==
  {[BaseInput EXCEPT !.title = t, !.description = d, !.is_active = a] :
     t \in Titles,
     d \in {Undefined, Str(<<"a", "\"">>)},
     a \in {Undefined, Null, Bool(TRUE), Bool(FALSE)}}

Attr(name, values) == [type |-> "object", name |-> name, values |-> values]

\* Attribute lists whose values are bare strings, objects or a mix of both,
\* and lists with an attribute that is null or has no values array.
LooseAttrs ==
  {Arr(<<Attr(Str(S_Color), Arr(vs))>>) :
     vs \in {<<Str(S_Red)>>, <<Str(S_Red), Str(S_Yellow)>>,
             <<Str(S_Red), V_Yellow>>, <<V_Yellow, Str(S_Red)>>}}
    \cup {Arr(<<[type |-> "object", name |-> Str(S_Color)]>>),
          Arr(<<Attr(Str(S_Color), Str(S_Red))>>),
          Arr(<<Null>>)}

\* Samples whose sample_attributes is missing, an array (empty, well formed,
\* holding a null value or an attribute without values) or not an array.
LooseSamples ==
  {Undefined, [type |-> "object", title |-> Str(S_Shop)]}
    \cup {[type |-> "object", title |-> Str(S_Shop), sample_attributes |-> sa] :
            sa \in {Arr(<<>>),
                    Arr(<<Attr(Str(S_Size), Arr(<<V_M>>))>>),
                    Arr(<<Attr(Str(S_Size), Arr(<<Null>>))>>),
                    Arr(<<[type |-> "object", name |-> Str(S_Size)]>>),
                    Str(S_Size),
                    [type |-> "object"]}}

\* Products that vary what the dispatch of normalizeProductInput reads.
ShapeInputs ==
  {[BaseInput EXCEPT !.sample = sm, !.attributes = a, !.price = Str(S_255),
                     !.stock = Str(S_M1)] :
     sm \in LooseSamples,
     a \in LooseAttrs \cup {Undefined, Arr(<<>>), Str(S_Color)}}

Inputs ==
  ExpandInputs \cup NestedTagInputs \cup FlatTagInputs
    \cup NestedMediaInputs \cup FlatMediaInputs \cup TextInputs
    \cup ShapeInputs

Shops == {"shop1", "shop2"}

\* accessTokens[shop] of a shop with no entry in the store.
NoToken == "undefined"

(***************************************************************************)
(* The pipeline of the handler, lines 258-271: normalize, expand, build    *)
(* the media list, render the tags.  A raise ends it in "threw".           *)
(***************************************************************************)
NotYet == [type |-> "notyet"]
Idle == [pc |-> "idle"]

Init ==
  /\ input \in Inputs
  /\ pc = "start"
  /\ normalized = NotYet
  /\ expanded = NotYet
  /\ media = NotYet
  /\ tagsOut = NotYet
  /\ mutation = NotYet
  /\ shop = "shop1"
  /\ accessTokens = [s \in Shops |-> "token1"]
  /\ accessToken = NoToken
  /\ calls = <<>>
  /\ productData = NotYet
  /\ mediaResponse = NotYet
  /\ responses = <<>>
  /\ callback = Idle
  /\ authenticated = Idle

\* Line 258
Normalize ==
  /\ pc = "start"
  /\ normalized' = normalizeProductInput(input)
  /\ pc' = IF normalized' = Threw THEN "threw" ELSE "normalized"
  /\ UNCHANGED <<input, expanded, media, tagsOut, mutation, hvars, ovars>>

\* Line 260
Expand ==
  /\ pc = "normalized"
  /\ expanded' = [type |-> "expanded"] @@ buildOptionsAndVariants(normalized)
  /\ pc' = "expanded"
  /\ UNCHANGED <<input, normalized, media, tagsOut, mutation, hvars, ovars>>

\* Line 261
BuildMedia ==
  /\ pc = "expanded"
  /\ media' = IF buildMediaThrows(normalized) THEN Threw
              ELSE Arr(buildMedia(normalized))
  /\ pc' = IF media' = Threw THEN "threw" ELSE "media"
  /\ UNCHANGED <<input, normalized, expanded, tagsOut, mutation, hvars, ovars>>

\* Line 271
FormatTags ==
  /\ pc = "media"
  /\ tagsOut' = IF formatTags(normalized.tags) = Threw THEN Threw
                ELSE [type |-> "tags"] @@ formatTags(normalized.tags)
  /\ pc' = IF tagsOut' = Threw THEN "threw" ELSE "serialized"
  /\ UNCHANGED <<input, normalized, expanded, media, mutation, hvars, ovars>>

\* Lines 264-280
BuildMutation ==
  /\ pc = "serialized"
  /\ mutation' = [type |-> "mutation",
                  slots |-> mutationSlots(normalized, expanded, tagsOut)]
  /\ pc' = "mutation"
  /\ UNCHANGED <<input, normalized, expanded, media, tagsOut, hvars, ovars>>

Next == Normalize \/ Expand \/ BuildMedia \/ FormatTags \/ BuildMutation

Spec == Init /\ [][Next]_vars

(***************************************************************************)
(* Properties of the variant expander.                                     *)
(***************************************************************************)
Expanded == expanded # NotYet

\* The attributes of the normalized product (none when it has no array).
AttrsOf(product) ==
  IF IsArray(Get(product, "attributes")) THEN product.attributes.items
  ELSE <<>>

\* The entries of the value list of an attribute.
EntriesOf(attr) ==
  IF IsArray(Get(attr, "values")) THEN attr.values.items ELSE <<>>

RECURSIVE ProdLen(_)
ProdLen(lists) ==
  IF lists = <<>> THEN 1 ELSE Len(lists[1]) * ProdLen(Tail(lists))

SetMax(S) == CHOOSE x \in S : \A y \in S : y <= x

\* C1: a normalized product with n attributes whose value lists have
\* k_1..k_n entries expands to exactly k_1*...*k_n variants, and to exactly
\* one variant if n = 0 or some k_i = 0.
C1_VariantCount ==
  Expanded =>
    LET lists == [i \in DOMAIN AttrsOf(normalized) |->
                    EntriesOf(AttrsOf(normalized)[i])]
    IN Len(expanded.variants) =
         IF lists = <<>> \/ \E i \in DOMAIN lists : lists[i] = <<>>
         THEN 1 ELSE ProdLen(lists)

\* The value lists the enumeration runs over: the non-empty lists of valid
\* values, in attribute order.
EnumeratedLists(product) ==
  LET all == [i \in DOMAIN AttrsOf(product) |->
                valuesOf(product, AttrsOf(product)[i])]
  IN SelectIdx(all, [i \in DOMAIN all |-> all[i] # <<>>])

\* The i-th combination in nested-loop order: list j advances once every
\* ProdLen(lists after j) steps, so the first list varies slowest.
NestedLoopCombo(lists, i) ==
  [j \in DOMAIN lists |->
     lists[j][(((i - 1) \div ProdLen(SubSeq(lists, j + 1, Len(lists))))
                 % Len(lists[j])) + 1]]

\* C2: the variants are enumerated in nested-loop order over the attributes
\* in attribute order, the first attribute varying slowest and the last one
\* fastest, for any number of attributes (the attributes enumerated are those
\* that have a valid value).
C2_NestedLoopOrder ==
  (Expanded /\ AttrsOf(normalized) # <<>>) =>
    LET lists == EnumeratedLists(normalized)
    IN /\ Len(expanded.variants) = ProdLen(lists)
       /\ \A i \in DOMAIN expanded.variants :
            expanded.variants[i] =
              variantOf(normalized, NestedLoopCombo(lists, i))

OptionsOfVariants == [i \in DOMAIN expanded.variants |->
                        expanded.variants[i].options]

\* Color:[Red,Yellow] x Size:[M,L] gives [Red,M],[Red,L],[Yellow,M],[Yellow,L].
C2_Witness ==
  /\ Expanded
  /\ Len(AttrsOf(normalized)) = 2
  /\ OptionsOfVariants =
       << <<Str(S_Red), Str(S_M)>>, <<Str(S_Red), Str(S_L)>>,
          <<Str(S_Yellow), Str(S_M)>>, <<Str(S_Yellow), Str(S_L)>> >>

HasVariants == Expanded /\ expanded.variants # <<>>

\* The product-level price as a number of thousandths, 0 when there is none.
ProductLevelMilli(product) ==
  LET p == parseFloat(Get(product, "price"))
  IN IF p = NaN THEN 0 ELSE p.milli

\* C3 as stated: the price is the maximum over the contributing values of
\* the value's own price, a value whose price is missing or unparseable
\* contributing the product-level price (0 if the product has none).
C3_PriceAsStated ==
  HasVariants =>
    LET combos == combinationsOf(normalized)
        level == ProductLevelMilli(normalized)
        contribution(val) ==
          LET own == parseFloat(Get(val, "price"))
          IN IF own = NaN THEN level ELSE own.milli
    IN \A i \in DOMAIN expanded.variants :
         combos[i] # <<>> =>
           expanded.variants[i].price =
             Str(toFixed2(Num(SetMax({contribution(combos[i][j]) :
                                        j \in DOMAIN combos[i]}))))

\* Digits, a point, two digits, after an optional minus sign.
TwoFractionDigits(cs) ==
  LET body == IF cs # <<>> /\ cs[1] = "-" THEN Tail(cs) ELSE cs
      n == Len(body)
  IN /\ n >= 4
     /\ body[n - 2] = "."
     /\ \A k \in (1..n) \ {n - 2} : IsDigit(body[k])

\* C3 as amended: the price is the maximum over the contributing values of
\* the value's own price when it has one and else the product-level price
\* (0 if the product has none), leaving out every price that does not parse
\* as a number, and it is 0 when nothing is left; it is formatted with
\* exactly two fractional digits.
C3_Price ==
  HasVariants =>
    LET combos == combinationsOf(normalized)
        fallback == IF Truthy(Get(normalized, "price"))
                    THEN parseFloat(normalized.price) ELSE Num(0)
        contribution(val) ==
          IF Truthy(Get(val, "price")) THEN parseFloat(val.price)
          ELSE fallback
    IN \A i \in DOMAIN expanded.variants :
         LET parsed == {contribution(combos[i][j]) : j \in DOMAIN combos[i]}
                         \ {NaN}
             best == IF parsed = {} THEN 0
                     ELSE SetMax({n.milli : n \in parsed})
             price == expanded.variants[i].price
         IN /\ price.type = "string"
            /\ TwoFractionDigits(price.chars)
            /\ parseFloat(price).milli \in (best - 5)..(best + 5)
            /\ price = Str(toFixed2(Num(best)))

\* A variant of Red (19.99) and a value with an unparseable price, under a
\* product-level price of 25.5, costs 19.99.
C3_Witness ==
  /\ HasVariants
  /\ Get(normalized, "price") = Str(S_255)
  /\ \E i \in DOMAIN expanded.variants :
       /\ combinationsOf(normalized)[i] = <<V_Red, V_Odd>>
       /\ expanded.variants[i].price = Str(S_1999)

\* Some attribute of the product has no valid value, so that the cartesian
\* product of the value lists is empty.
SomeListEmpty(product) ==
  \E i \in DOMAIN AttrsOf(product) :
    valuesOf(product, AttrsOf(product)[i]) = <<>>

\* C4: when the cartesian expansion yields no variant (an attribute's value
\* list is empty after filtering), expand returns exactly one default
\* variant, with the product-level price and one "Default" label per
\* attribute.
C4_DefaultVariant ==
  (Expanded /\ SomeListEmpty(normalized)) =>
    /\ Len(expanded.variants) = 1
    /\ expanded.variants[1].price =
         Str(toFixed2(Num(ProductLevelMilli(normalized))))
    /\ expanded.variants[1].options =
         [i \in DOMAIN AttrsOf(normalized) |-> Str(S_Default)]

\* C5: a product whose attribute list is empty or absent expands to exactly
\* one variant, with no options and the product-level price formatted to two
\* fractional digits, "0.00" when the product has no price.
C5_NoAttributes ==
  (Expanded /\ AttrsOf(normalized) = <<>>) =>
    /\ Len(expanded.variants) = 1
    /\ expanded.variants[1].options = <<>>
    /\ expanded.variants[1].price =
         Str(toFixed2(Num(ProductLevelMilli(normalized))))

\* C6: every variant has exactly one label per attribute of the product, in
\* attribute order: the name of the selected value, or "Default".
C6_OneLabelPerAttribute ==
  Expanded =>
    \A i \in DOMAIN expanded.variants :
      /\ Len(expanded.variants[i].options) = Len(expanded.options)
      /\ Len(expanded.options) = Len(AttrsOf(normalized))
      /\ \A j \in DOMAIN expanded.variants[i].options :
           \/ expanded.variants[i].options[j] = Str(S_Default)
           \/ \E k \in DOMAIN EntriesOf(AttrsOf(normalized)[j]) :
                expanded.variants[i].options[j] =
                  Get(EntriesOf(AttrsOf(normalized)[j])[k], "name")

\* The SKUs of a combination joined in one left-to-right pass.
RECURSIVE DashJoined(_, _)
DashJoined(combo, acc) ==
  IF combo = <<>> THEN acc
  ELSE LET sku == Get(combo[1], "sku")
           has == sku.type = "string" /\ sku.chars # <<>>
       IN DashJoined(Tail(combo),
                     IF ~has THEN acc
                     ELSE IF acc = <<>> THEN sku.chars
                     ELSE acc \o <<"-">> \o sku.chars)

\* C7: the SKU of a variant is the dash-joined concatenation, in attribute
\* order, of the SKUs of exactly the contributing values that have one, and
\* it is absent, never the empty string, when none has one.
C7_Sku ==
  HasVariants =>
    LET combos == combinationsOf(normalized)
    IN \A i \in DOMAIN expanded.variants :
         LET sku == expanded.variants[i].sku
             anySku == \E j \in DOMAIN combos[i] :
                         Truthy(Get(combos[i][j], "sku"))
         IN /\ sku # Str(<<>>)
            /\ anySku => sku = Str(DashJoined(combos[i], <<>>))
            /\ ~anySku => sku = Undefined

SkusOfVariants == [i \in DOMAIN expanded.variants |->
                     expanded.variants[i].sku]

\* Red (R) or Yellow (none) with M (M1) or L (none).
C7_Witness ==
  /\ Expanded
  /\ SkusOfVariants =
       <<Str(<<"R", "-", "M", "1">>), Str(S_R), Str(S_M1), Undefined>>

\* C8: every variant has a non-negative price, whatever the input, and the
\* price is "0.00" when none is derivable from the values or the product.
C8_NonNegativePrice ==
  Expanded =>
    \A i \in DOMAIN expanded.variants :
      /\ parseFloat(expanded.variants[i].price) # NaN
      /\ parseFloat(expanded.variants[i].price).milli >= 0
      /\ expanded.variants[i].price.chars[1] # "-"

(***************************************************************************)
(* Properties of the tags.                                                 *)
(***************************************************************************)
\* The entries of a sequence that no earlier entry equals, in order.
FirstOccurrences(seq) ==
  SelectIdx(seq, [i \in DOMAIN seq |->
                    \A j \in 1..(i - 1) : seq[j] # seq[i]])

\* The tags a product is given before any resolution: the assembled list of
\* a nested-sample product, the caller's tags of any other product.
SourceTags(inp) ==
  IF shapeOf(inp) = "nested"
  THEN nestedTags(inp, inp.sample, nestedAttributes(inp.sample))
  ELSE IF Truthy(inp.tags) THEN tagArrayOf(inp.tags) ELSE <<>>

\* The source tags trimmed, without the empty and whitespace-only ones.
SurvivingTags(inp) ==
  LET src == SourceTags(inp)
      kept == SelectIdx(src, [i \in DOMAIN src |->
                                /\ src[i].type = "string"
                                /\ Trim(src[i].chars) # <<>>])
  IN [i \in DOMAIN kept |-> gqlEscape(Trim(kept[i].chars))]

\* C9: for all three input shapes the resolved tag sequence has no empty or
\* whitespace-only entry and no duplicate, and keeps the surviving tags in
\* first-occurrence order.
C9_ResolvedTags ==
  tagsOut.type = "tags" =>
    /\ \A i \in DOMAIN tagsOut.cleaned : Trim(tagsOut.cleaned[i]) # <<>>
    /\ \A i, j \in DOMAIN tagsOut.cleaned :
         i # j => tagsOut.cleaned[i] # tagsOut.cleaned[j]
    /\ tagsOut.cleaned = FirstOccurrences(SurvivingTags(input))

\* The part of a name that is there, the empty string when it is not.
NamePart(v) == IF v.type = "string" THEN v.chars ELSE <<>>

\* C10: the tags of a nested-sample product are, in this order, the marker,
\* the caller's tags (a scalar as a one-element list), the store name if
\* present, the manufacturer's first and last name joined by one space and
\* trimmed if present, every attribute name in attribute order, and the
\* product's own name if present, deduplicated preserving first occurrence.
C10_NestedTagOrder ==
  (shapeOf(input) = "nested" /\ normalized.type = "object") =>
    LET sample == input.sample
        caller == IF ~Truthy(input.tags) THEN <<>>
                  ELSE IF IsArray(input.tags) THEN input.tags.items
                  ELSE <<input.tags>>
        store == IF Truthy(input.store) /\ Truthy(Get(input.store, "name"))
                 THEN <<input.store.name>> ELSE <<>>
        m == Get(sample, "manufacturer")
        maker == IF Truthy(m) /\ Truthy(Get(m, "first_name"))
                 THEN <<Str(Trim(NamePart(Get(m, "first_name")) \o <<" ">>
                                   \o NamePart(Get(m, "last_name"))))>>
                 ELSE <<>>
        names == [i \in DOMAIN sample.sample_attributes.items |->
                    Get(sample.sample_attributes.items[i], "name")]
        own == IF Truthy(input.name) THEN <<input.name>> ELSE <<>>
    IN normalized.tags =
         Arr(FirstOccurrences(<<Str(S_Marker)>> \o caller \o store \o maker
                                \o names \o own))

\* The resolution the code applies to a tag sequence: the Set of line 80
\* for a nested-sample product, then the trim and the filter of lines
\* 240-241 for every product.
ResolveTags(nested, tags) ==
  LET deduped == IF nested THEN SetDedup(tags) ELSE tags
      trimmed == trimmedTags(Arr(deduped))
  IN [i \in DOMAIN trimmed |-> Str(trimmed[i])]

\* C11: applying the tag resolution (dedup, trim, drop empty) to an already
\* resolved tag sequence returns the same sequence.
C11_ResolutionIdempotent ==
  tagsOut.type = "tags" =>
    LET nested == shapeOf(input) = "nested"
        resolved == ResolveTags(nested, SourceTags(input))
    IN ResolveTags(nested, resolved) = resolved

(***************************************************************************)
(* Properties of the media.                                                *)
(***************************************************************************)
\* The image references of a sequence of values, value by value.
RECURSIVE ImagesOfValues(_)
ImagesOfValues(vals) ==
  IF vals = <<>> THEN <<>>
  ELSE LET imgs == Get(vals[1], "images")
       IN (IF IsArray(imgs)
           THEN [k \in DOMAIN imgs.items |-> Get(imgs.items[k], "image")]
           ELSE <<>>)
            \o ImagesOfValues(Tail(vals))

\* The image references of a sequence of attributes, attribute by attribute.
RECURSIVE ImagesOfAttrs(_)
ImagesOfAttrs(attrs) ==
  IF attrs = <<>> THEN <<>>
  ELSE ImagesOfValues(attrs[1].values.items) \o ImagesOfAttrs(Tail(attrs))

\* The references of sample.sample_media, in input order.
TopRefs(sample) ==
  IF IsArray(Get(sample, "sample_media"))
  THEN [k \in DOMAIN sample.sample_media.items |->
          Get(sample.sample_media.items[k], "media")]
  ELSE <<>>

EndsWith(s, t) ==
  Len(s) >= Len(t) /\ SubSeq(s, Len(s) - Len(t) + 1, Len(s)) = t

\* C12: the media of a nested-sample product list every sample_media entry
\* in input order, then every image of every attribute value in attribute,
\* value and image order; the resolved media have the same length and order.
C12_NestedMediaOrder ==
  (shapeOf(input) = "nested" /\ normalized.type = "object") =>
    LET refs == TopRefs(input.sample)
                  \o ImagesOfAttrs(input.sample.sample_attributes.items)
    IN /\ [k \in DOMAIN normalized.media.items |->
             normalized.media.items[k].media] = refs
       /\ media.type = "array" =>
            /\ Len(media.items) = Len(refs)
            /\ \A k \in DOMAIN refs :
                 EndsWith(media.items[k].originalSource, ToStr(refs[k]))

\* A sample with an entry of its own and images on both values.
C12_Witness ==
  /\ shapeOf(input) = "nested"
  /\ media.type = "array"
  /\ Len(TopRefs(input.sample)) = 2
  /\ Len(media.items) = 5

S_SchemeSep == <<":", "/", "/">>

HasInfix(s, t) ==
  \E i \in 1..(Len(s) - Len(t) + 1) : SubSeq(s, i, i + Len(t) - 1) = t

\* What follows the "://" of an absolute URL.
AfterScheme(url) ==
  LET i == CHOOSE i \in 1..(Len(url) - 2) :
             /\ SubSeq(url, i, i + 2) = S_SchemeSep
             /\ \A j \in 1..(i - 1) : SubSeq(url, j, j + 2) # S_SchemeSep
  IN SubSeq(url, i + 3, Len(url))

\* C13: each raw reference (the primary field or else the alias) is resolved
\* by the three-way rule: used unchanged when it has a URL scheme, appended
\* to the base URL when it starts with the media root, joined to the base
\* URL with one slash otherwise; the result is an absolute URL with no
\* doubled and no missing slash at the join.
C13_ThreeWayResolution ==
  (media.type = "array" /\ media.items # <<>>) =>
    \A k \in DOMAIN media.items :
      LET m == normalized.media.items[k]
          raw == IF Truthy(Get(m, "media")) THEN m.media.chars
                 ELSE IF Truthy(Get(m, "image")) THEN m.image.chars
                 ELSE <<>>
          url == media.items[k].originalSource
      IN /\ url = IF HasInfix(raw, S_SchemeSep) THEN raw
                  ELSE IF StartsWith(raw, S_mediaRoot)
                    THEN base_image_url \o raw
                  ELSE base_image_url \o <<"/">> \o raw
         /\ HasInfix(url, S_SchemeSep)
         /\ ~HasInfix(AfterScheme(url), <<"/", "/">>)
         /\ ~HasInfix(raw, S_SchemeSep) =>
              \E j \in DOMAIN url :
                /\ SubSeq(url, 1, j - 1) = base_image_url
                /\ url[j] = "/"

(***************************************************************************)
(* Properties of the request bodies.                                       *)
(***************************************************************************)
\* The number of backslashes that stand immediately before position i.
RECURSIVE BackslashesBefore(_, _)
BackslashesBefore(s, i) ==
  IF i > 1 /\ s[i - 1] = "\\" THEN 1 + BackslashesBefore(s, i - 1) ELSE 0

\* The text between the quotes is a well-formed string literal.
WellFormedLiteral(s) ==
  /\ \A i \in DOMAIN s : s[i] = "\"" => BackslashesBefore(s, i) % 2 = 1
  /\ BackslashesBefore(s, Len(s) + 1) % 2 = 0

\* Reading a literal: a backslash stands for the character after it.
RECURSIVE Unescape(_)
Unescape(s) ==
  IF s = <<>> THEN <<>>
  ELSE IF s[1] = "\\" /\ Len(s) >= 2
    THEN <<s[2]>> \o Unescape(SubSeq(s, 3, Len(s)))
  ELSE <<s[1]>> \o Unescape(Tail(s))

SlotsOf(f) == SelectIdx(mutation.slots,
                        [i \in DOMAIN mutation.slots |->
                           mutation.slots[i].field = f])

CountOf(s, c) == Cardinality({i \in DOMAIN s : s[i] = c})

\* C14: the escaped title has every backslash of the title doubled and every
\* double quote preceded by a backslash, is a well-formed literal between
\* its quotes, and unescaping it gives back the title; the same holds of
\* the escaped description.
C14_EscapeRoundTrip ==
  mutation.type = "mutation" =>
    LET title == ToStr(normalized.title)
        lit == SlotsOf("title")[1].text
    IN /\ Len(lit) = Len(title) + CountOf(title, "\\") + CountOf(title, "\"")
       /\ WellFormedLiteral(lit)
       /\ Unescape(lit) = title
       /\ \A i \in DOMAIN SlotsOf("descriptionHtml") :
            /\ WellFormedLiteral(SlotsOf("descriptionHtml")[i].text)
            /\ Unescape(SlotsOf("descriptionHtml")[i].text)
                 = ToStr(normalized.description)

\* A title with a backslash right before a double quote has been escaped.
C14_Witness ==
  /\ mutation.type = "mutation"
  /\ \E i \in 1..(MaxTitleLen - 1) :
       /\ i + 1 \in DOMAIN ToStr(normalized.title)
       /\ ToStr(normalized.title)[i] = "\\"
       /\ ToStr(normalized.title)[i + 1] = "\""

\* C16: the create request carries the status ACTIVE when is_active is true
\* and the status DRAFT when is_active is false or absent.
C16_Status ==
  mutation.type = "mutation" =>
    /\ Len(SlotsOf("status")) = 1
    /\ SlotsOf("status")[1].text =
         IF Get(input, "is_active") = Bool(TRUE) THEN S_ACTIVE ELSE S_DRAFT

(***************************************************************************)
(* The POST /create handler as a whole (lines 248-397): the input check,   *)
(* the pipeline above, the create call, the media-attach call and the      *)
(* responses.  The upstream is the environment: each call returns one of   *)
(* the answers drawn below, or fails.                                      *)
(***************************************************************************)
Obj(r) == [type |-> "object"] @@ r

Tokens == {"token1"}

S_gid == <<"g", "i", "d", "1">>
S_gidQuote == <<"g", "\"", "1">>
S_apiError == <<"S", "h", "o", "p", "i", "f", "y", " ", "A", "P", "I", " ",
                "e", "r", "r", "o", "r">>

S_required ==
  <<"P", "r", "o", "d", "u", "c", "t", " ", "J", "S", "O", "N", " ",
    "i", "s", " ", "r", "e", "q", "u", "i", "r", "e", "d">>
S_TypeError == <<"T", "y", "p", "e", "E", "r", "r", "o", "r">>
S_NetworkError == <<"N", "e", "t", "w", "o", "r", "k", " ",
                    "E", "r", "r", "o", "r">>

UserError(f) == Obj([field |-> Str(<<f>>), message |-> Str(<<"m">>)])

\* The bodies a 2xx answer to the create call may carry.
CreateBodies ==
  {Obj([data |-> Obj([productCreate |->
                        Obj([product |-> Obj([id |-> i]),
                             userErrors |-> Arr(<<>>)])])]) :
     i \in {Str(S_gid), Str(S_gidQuote), Undefined}}
    \cup {Obj([data |-> Obj([productCreate |->
                               Obj([product |-> Null, userErrors |-> Arr(e)])])]) :
            e \in {<<>>, <<UserError("a")>>, <<UserError("a"), UserError("b")>>}}
    \cup {Obj([data |-> Obj([productCreate |-> Null])]),
          Obj([errors |-> Arr(<<Str(<<"e">>)>>)]),
          Undefined}

\* The bodies a 2xx answer to the media-attach call may carry.
MediaBodies ==
  {Obj([data |-> Obj([productCreateMedia |->
                        Obj([media |-> Arr(<<>>),
                             mediaUserErrors |-> Arr(<<>>)])])]),
   Obj([data |-> Obj([productCreateMedia |->
                        Obj([media |-> Arr(<<>>),
                             mediaUserErrors |-> Arr(<<UserError("a")>>)])])]),
   Obj([data |-> Obj([a |-> Null])]),
   Obj([errors |-> Arr(<<Str(<<"e">>)>>)]),
   Undefined}

\* The bodies a non-2xx answer may carry.
ErrorBodies ==
  {Obj([errors |-> Str(<<"e">>)]), Obj([message |-> Str(<<"m">>)]),
   Obj([a |-> Null]), Str(<<>>), Null}

HttpStatuses == {401, 422, 503}

\* What an outbound call ends with: a 2xx answer, a non-2xx answer (axios
\* raises an error that carries the response) or no answer at all.
Outcomes(bodies) ==
  {[kind |-> "ok", data |-> b] : b \in bodies}
    \cup {[kind |-> "http", status |-> st, data |-> b] :
            st \in HttpStatuses, b \in ErrorBodies}
    \cup {[kind |-> "network", message |-> S_NetworkError]}

Respond(st, b) == [status |-> st, body |-> b]

\* Lines 386-395: the response of the catch block.
catchResponse(error) ==
  IF error.kind = "http"
  THEN Respond(IF error.status # 0 THEN error.status ELSE 500,
               Obj([error |-> error.data,
                    message |-> OrElse(OrElse(Get(error.data, "errors"),
                                              Get(error.data, "message")),
                                       Str(S_apiError))]))
  ELSE Respond(500, Obj([error |-> Str(error.message)]))

\* Line 388 raises a TypeError inside the catch block: error.response.data
\* is null (the upstream body was the JSON text null).
catchThrows(error) == error.kind = "http" /\ Nullish(error.data)

S_internal == <<"I", "n", "t", "e", "r", "n", "a", "l", " ", "S", "e", "r",
               "v", "e", "r", " ", "E", "r", "r", "o", "r">>

\* Line 248: what becomes of a request whose async handler rejects.  The
\* router leaves the request unanswered, or (a router that forwards
\* rejected promises) answers 500 by its default error handler.
afterRejection(sent) == {sent, Append(sent, Respond(500, Str(S_internal)))}

\* Line 318 or 319 raises a TypeError.
createThrows(data) ==
  \/ Nullish(data)
  \/ Nullish(Get(data, "data"))
  \/ Nullish(Get(data.data, "productCreate"))

\* hasUserErrors with the test of line 319 asking for more than one error.
hasSeveralUserErrors(pd) ==
  Truthy(Get(pd, "userErrors")) /\ Len(pd.userErrors.items) > 1

\* Line 319
hasUserErrors(pd) ==
  Truthy(Get(pd, "userErrors")) /\ Len(pd.userErrors.items) > 0

\* attachesMedia without the length test of line 325.
attachesMediaOfAnyLength(m, pd) ==
  Truthy(Get(pd, "product")) /\ Truthy(Get(pd.product, "id"))

\* attachesMedia without the test of the product id of line 325.
attachesMediaWithoutId(m, pd) ==
  Len(m.items) > 0 /\ Truthy(Get(pd, "product"))

\* Line 325
attachesMedia(m, pd) ==
  Len(m.items) > 0 /\ Truthy(Get(pd, "product")) /\ Truthy(Get(pd.product, "id"))

\* Lines 373-382
successResponse(pd, mr, product) ==
  Respond(200, Obj([product |-> Get(pd, "product"),
                    media |-> mr,
                    source_data |->
                      Obj([original_id |-> Get(product, "id"),
                           price_range |-> Get(product, "price_range"),
                           stock |-> Get(product, "stock"),
                           tags |-> Get(product, "tags")])]))

Call(k, body) ==
  [kind |-> k, shop |-> shop, token |-> accessToken, body |-> body,
   outcome |-> [kind |-> "pending"]]

\* The products drawn for the handler: without media, with media in the
\* nested and in the flat shape, and one on which buildMedia raises.
HandlerInputs ==
  {Undefined,
   Null,
   BaseInput,
   [BaseInput EXCEPT !.is_active = Bool(TRUE), !.tags = Str(S_Color)],
   [BaseInput EXCEPT
      !.sample = Obj([title |-> Str(S_Tee), sample_attributes |-> Arr(<<>>),
                      sample_media |-> Arr(<<MediaEntry(Str(S_a_png))>>)])],
   [BaseInput EXCEPT !.media = Arr(<<MediaEntry(Str(S_http_c)),
                                     Image(Str(S_i1))>>)],
   [BaseInput EXCEPT !.media = Arr(<<Null>>)],
   [BaseInput EXCEPT
      !.attributes = Arr(<<[type |-> "object", name |-> Str(S_Color)]>>)],
   [BaseInput EXCEPT
      !.attributes = Arr(<<Obj([name |-> Str(S_Color),
                                values |-> Arr(<<V_Red, V_Yellow>>)])>>)]}

InitHandler ==
  /\ input \in HandlerInputs
  /\ shop \in Shops
  /\ accessTokens \in [Shops -> Tokens \cup {NoToken}]
  /\ pc = "received"
  /\ normalized = NotYet
  /\ expanded = NotYet
  /\ media = NotYet
  /\ tagsOut = NotYet
  /\ mutation = NotYet
  /\ accessToken = NoToken
  /\ calls = <<>>
  /\ productData = NotYet
  /\ mediaResponse = NotYet
  /\ responses = <<>>
  /\ callback = Idle
  /\ authenticated = Idle

\* productMissing that only notices a product that is not there at all.
productMissingIfUndefined(product) == product = Undefined

\* Line 252: !product
productMissing(product) == ~Truthy(product)

\* Lines 249-254
CheckProduct ==
  /\ pc = "received"
  /\ IF productMissing(input)
     THEN /\ responses' = Append(responses,
                                 Respond(400, Obj([error |-> Str(S_required)])))
          /\ pc' = "done"
     ELSE /\ pc' = "start"
          /\ UNCHANGED responses
  /\ accessToken' = accessTokens[shop]
  /\ UNCHANGED <<input, normalized, expanded, media, tagsOut, mutation,
                 shop, accessTokens, calls, productData, mediaResponse,
                 ovars>>

\* Catch that also removes the shop's credential, as line 217 of
\* src/index.js does for a failed validation.
CatchDroppingToken ==
  /\ pc = "threw"
  /\ responses' = Append(responses,
                         catchResponse([kind |-> "raised",
                                        message |-> S_TypeError]))
  /\ accessTokens' = [accessTokens EXCEPT ![shop] = NoToken]
  /\ pc' = "done"
  /\ UNCHANGED <<input, normalized, expanded, media, tagsOut, mutation,
                 shop, accessToken, calls, productData, mediaResponse,
                 ovars>>

\* Lines 383-396, for an exception raised by lines 258-304.
Catch ==
  /\ pc = "threw"
  /\ responses' = Append(responses,
                         catchResponse([kind |-> "raised",
                                        message |-> S_TypeError]))
  /\ pc' = "done"
  /\ UNCHANGED <<input, normalized, expanded, media, tagsOut, mutation,
                 shop, accessToken, accessTokens, calls, productData, mediaResponse,
                 ovars>>

\* Lines 307-316: the create call is issued.
CreateCall ==
  /\ pc = "mutation"
  /\ calls' = Append(calls, Call("create", mutation.slots))
  /\ pc' = "awaitCreate"
  /\ UNCHANGED <<input, normalized, expanded, media, tagsOut, mutation,
                 shop, accessToken, accessTokens, productData, mediaResponse, responses,
                 ovars>>

\* Lines 307-345 and 372-396, from the answer of the create call to the
\* next await or to the response.
CreateReturns ==
  /\ pc = "awaitCreate"
  /\ \E o \in Outcomes(CreateBodies) :
       LET returned == [calls EXCEPT ![Len(calls)].outcome = o]
           pd == o.data.data.productCreate
       IN IF o.kind # "ok"
          THEN /\ calls' = returned
               /\ IF catchThrows(o)
                  THEN responses' \in afterRejection(responses)
                  ELSE responses' = Append(responses, catchResponse(o))
               /\ pc' = "done"
               /\ UNCHANGED <<productData, mediaResponse>>
          ELSE IF createThrows(o.data)
          THEN /\ calls' = returned
               /\ responses' =
                    Append(responses,
                           catchResponse([kind |-> "raised",
                                          message |-> S_TypeError]))
               /\ pc' = "done"
               /\ UNCHANGED <<productData, mediaResponse>>
          ELSE IF hasUserErrors(pd)
          THEN /\ calls' = returned
               /\ productData' = pd
               /\ responses' =
                    Append(responses,
                           Respond(400, Obj([errors |-> pd.userErrors])))
               /\ pc' = "done"
               /\ UNCHANGED mediaResponse
          ELSE IF attachesMedia(media, pd)
          THEN /\ calls' =
                    Append(returned,
                           Call("media",
                                mediaMutationSlots(pd.product.id, media.items)))
               /\ productData' = pd
               /\ mediaResponse' = Null
               /\ pc' = "awaitMedia"
               /\ UNCHANGED responses
          ELSE /\ calls' = returned
               /\ productData' = pd
               /\ mediaResponse' = Null
               /\ responses' =
                    Append(responses, successResponse(pd, Null, normalized))
               /\ pc' = "done"
  /\ UNCHANGED <<input, normalized, expanded, media, tagsOut, mutation,
                 shop, accessToken, accessTokens, ovars>>

\* Line 357 raises a TypeError (caught at line 358).
mediaThrows(data) == Nullish(data) \/ Nullish(Get(data, "data"))

\* Lines 346-382, from the answer of the media-attach call to the response.
MediaReturns ==
  /\ pc = "awaitMedia"
  /\ \E o \in Outcomes(MediaBodies) :
       /\ calls' = [calls EXCEPT ![Len(calls)].outcome = o]
       /\ mediaResponse' =
            IF o.kind = "ok" /\ ~mediaThrows(o.data)
            THEN Get(o.data.data, "productCreateMedia")
            ELSE mediaResponse
  /\ responses' = Append(responses,
                         successResponse(productData, mediaResponse', normalized))
  /\ pc' = "done"
  /\ UNCHANGED <<input, normalized, expanded, media, tagsOut, mutation,
                 shop, accessToken, accessTokens, productData, ovars>>

NextHandler ==
  \/ CheckProduct
  \/ Normalize
  \/ Expand
  \/ BuildMedia
  \/ FormatTags
  \/ BuildMutation
  \/ Catch
  \/ CreateCall
  \/ CreateReturns
  \/ MediaReturns

SpecHandler == InitHandler /\ [][NextHandler]_vars

(***************************************************************************)
(* Properties of the handler.                                              *)
(***************************************************************************)
\* C15: in both request bodies every interpolation that did not go through
\* gqlEscape is a price with two fractional digits, one of the two status
\* values or the content type IMAGE; any other text interpolated unescaped
\* would have to be harmless between its quotes.
C15_ConstrainedInterpolation ==
  \A n \in DOMAIN calls :
    \A k \in DOMAIN calls[n].body :
      LET slot == calls[n].body[k]
      IN ~slot.escaped =>
           CASE slot.field = "price" -> TwoFractionDigits(slot.text)
             [] slot.field = "status" -> slot.text \in {S_ACTIVE, S_DRAFT}
             [] slot.field = "mediaContentType" -> slot.text = S_IMAGE
             [] OTHER -> /\ slot.quoted
                         /\ WellFormedLiteral(slot.text)

MediaCalls == {n \in DOMAIN calls : calls[n].kind = "media"}

\* C17: when the resolved media list is empty no media-attach call is
\* issued, and a success response carries media: null.
C17_NoMediaNoAttach ==
  (media.type = "array" /\ media.items = <<>>) =>
    /\ MediaCalls = {}
    /\ \A i \in DOMAIN responses :
         responses[i].status = 200 => responses[i].body.media = Null

\* A created product with an id and no media has been answered.
C17_Witness ==
  /\ media.type = "array" /\ media.items = <<>>
  /\ pc = "done"
  /\ productData # NotYet
  /\ Truthy(Get(Get(productData, "product"), "id"))
  /\ Len(responses) = 1 /\ responses[1].status = 200

\* The validation errors in the body of an answer to the create call.
UpstreamErrors(o) ==
  IF o.kind = "ok" /\ ~createThrows(o.data)
       /\ IsArray(Get(o.data.data.productCreate, "userErrors"))
  THEN o.data.data.productCreate.userErrors.items
  ELSE <<>>

\* C18: when the create call returns a non-empty list of validation errors
\* the handler answers 400 with exactly those errors under `errors` and
\* issues no media-attach call.
C18_ValidationErrors ==
  (calls # <<>> /\ UpstreamErrors(calls[1].outcome) # <<>>) =>
    /\ responses =
         <<Respond(400, Obj([errors |-> Arr(UpstreamErrors(calls[1].outcome))]))>>
    /\ MediaCalls = {}
    /\ pc = "done"

\* The create call of a product with media returned one validation error.
C18_Witness ==
  /\ calls # <<>>
  /\ Len(UpstreamErrors(calls[1].outcome)) = 1
  /\ media.type = "array" /\ media.items # <<>>
  /\ pc = "done"

\* The media-attach call ended without a productCreateMedia payload.
AttachFailed(o) ==
  \/ o.kind \in {"http", "network"}
  \/ /\ o.kind = "ok"
     /\ \/ mediaThrows(o.data)
        \/ Nullish(Get(o.data.data, "productCreateMedia"))

\* C19: when the media-attach call fails the handler still answers 200 with
\* product and source_data, and the media field of the answer is not the
\* null of an answer for which no attach was attempted.
C19_AttachFailureVisible ==
  \A n \in MediaCalls :
    AttachFailed(calls[n].outcome) =>
      /\ Len(responses) = 1
      /\ responses[1].status = 200
      /\ {"product", "source_data"} \subseteq DOMAIN responses[1].body
      /\ responses[1].body.media # Null

\* C20: with no credential on file for the shop the handler answers 401 and
\* issues no upstream call.
C20_NoCredential ==
  (accessTokens[shop] = NoToken /\ Truthy(input)) =>
    /\ calls = <<>>
    /\ pc = "done" => /\ Len(responses) = 1
                      /\ responses[1].status = 401

\* C21: a request without a product payload is answered 400 at the input
\* check, before the pipeline starts and without any upstream call.
C21_MissingProduct ==
  ~Truthy(input) =>
    /\ calls = <<>>
    /\ pc \in {"received", "done"}
    /\ pc = "done" =>
         /\ Len(responses) = 1
         /\ responses[1].status = 400
         /\ DOMAIN responses[1].body = {"type", "error"}

\* A request whose product is null has been answered.
C21_Witness ==
  /\ input = Null
  /\ pc = "done"
  /\ Len(responses) = 1

\* The create call ended without a usable productCreate payload.
CreateFailed(o) ==
  \/ o.kind \in {"http", "network"}
  \/ o.kind = "ok" /\ createThrows(o.data)

\* C22: when the create call fails (no answer, a non-2xx answer or a
\* malformed body) the handler answers 500 with the error detail under
\* `error`, whatever the status of the upstream answer.
C22_CreateFailure ==
  (calls # <<>> /\ CreateFailed(calls[1].outcome)) =>
    /\ pc = "done"
    /\ Len(calls) = 1
    /\ Len(responses) = 1
    /\ "error" \in DOMAIN responses[1].body
    /\ responses[1].status = 500

(***************************************************************************)
(* Properties of the normalizer.                                           *)
(***************************************************************************)
\* C23: normalizeProductInput and buildOptionsAndVariants never raise: each
\* product that is an object gets a normalized product and an expansion.
C23_Total ==
  /\ pc # "start" => normalized # Threw
  /\ pc \notin {"start", "normalized", "threw"} => expanded.type = "expanded"

FlatShape(inp) ==
  /\ ~(Truthy(Get(inp, "sample"))
         /\ IsArray(Get(inp.sample, "sample_attributes")))
  /\ IsArray(Get(inp, "attributes"))

\* C24: in a flat-attributes product each element of each values array is
\* normalized by itself: a bare string v becomes {name: v}, an object stays
\* as it is, whatever the other elements of the array are.
C24_ValuesElementwise ==
  (FlatShape(input) /\ normalized.type = "object") =>
    \A i \in DOMAIN input.attributes.items :
      LET vs == input.attributes.items[i].values.items
          nvs == normalized.attributes.items[i].values.items
      IN /\ Len(nvs) = Len(vs)
         /\ \A j \in DOMAIN vs :
              /\ vs[j].type = "string" =>
                   nvs[j] = [type |-> "object", name |-> vs[j]]
              /\ vs[j].type = "object" => nvs[j] = vs[j]

\* The shape the dispatch rule gives a product: nested-sample when it has a
\* sample with a sample_attributes array, else flat-attributes when it has
\* an attributes array, else the default shape.
RuleShape(inp) ==
  IF Truthy(Get(inp, "sample")) /\ IsArray(Get(inp.sample, "sample_attributes"))
  THEN "nested"
  ELSE IF IsArray(Get(inp, "attributes")) THEN "flat" ELSE "default"

ScalarsKept(inp, out) ==
  \A f \in {"id", "title", "description", "price", "stock", "is_active"} :
    Get(out, f) = Get(inp, f)

\* What the normalized product of each shape looks like.
ShapedAs(shape, inp, out) ==
  CASE shape = "nested" ->
         /\ Len(out.attributes.items) = Len(inp.sample.sample_attributes.items)
         /\ out.title = OrElse(Get(inp, "name"), Get(inp.sample, "title"))
         /\ out.tags.items # <<>> /\ out.tags.items[1] = Str(S_Marker)
    [] shape = "flat" ->
         /\ Len(out.attributes.items) = Len(inp.attributes.items)
         /\ \A i \in DOMAIN out.attributes.items :
              out.attributes.items[i].name = Get(inp.attributes.items[i], "name")
         /\ ScalarsKept(inp, out)
    [] OTHER ->
         /\ out.attributes = Arr(<<>>)
         /\ out.media = OrElse(inp.media, Arr(<<>>))
         /\ out.tags = OrElse(inp.tags, Arr(<<>>))
         /\ ScalarsKept(inp, out)

\* C25: the normalized product is the one of the first shape that matches,
\* nested-sample before flat-attributes before the default shape.
C25_Dispatch ==
  pc # "start" =>
    /\ normalized.type = "object"
    /\ ShapedAs(RuleShape(input), input, normalized)

(***************************************************************************)
(* Properties of the handler's calls and responses.                        *)
(***************************************************************************)
\* The product id in the body of an answer to the create call.
UpstreamId(o) ==
  IF o.kind = "ok" /\ ~createThrows(o.data)
  THEN Get(Get(o.data.data.productCreate, "product"), "id")
  ELSE Undefined

\* C26: a request issues at most two outbound calls; the first is the
\* create call; a second one is the media-attach call and exists only once
\* the create call has returned a 2xx answer with no validation errors and
\* with a product id.
C26_CallSequence ==
  /\ Len(calls) <= 2
  /\ calls # <<>> => calls[1].kind = "create"
  /\ Len(calls) = 2 =>
       /\ calls[2].kind = "media"
       /\ calls[1].outcome.kind = "ok"
       /\ ~createThrows(calls[1].outcome.data)
       /\ UpstreamErrors(calls[1].outcome) = <<>>
       /\ Truthy(UpstreamId(calls[1].outcome))

\* Both calls have been issued and the second is still in flight.
C26_Witness ==
  /\ Len(calls) = 2
  /\ calls[2].outcome.kind = "pending"
  /\ pc = "awaitMedia"

IsError(r) == r.status >= 400

\* C27: an error response comes from the input check, from the credential
\* check or from a create call that failed or reported validation errors;
\* a request with a product whose create call succeeded without validation
\* errors gets no error response.
C27_ErrorSources ==
  \A i \in DOMAIN responses :
    IsError(responses[i]) =>
      \/ ~Truthy(input)
      \/ accessTokens[shop] = NoToken /\ calls = <<>>
      \/ /\ calls # <<>>
         /\ \/ CreateFailed(calls[1].outcome)
            \/ UpstreamErrors(calls[1].outcome) # <<>>

\* C29: a request is answered at most once, and exactly once when the
\* handler has come to its end.
C29_OneResponse ==
  /\ Len(responses) <= 1
  /\ pc = "done" => Len(responses) = 1

(***************************************************************************)
(* The credential store and the two handlers of src/index.js that change   *)
(* it: /shopify/callback (lines 158-190) and /shopify/authenticated        *)
(* (lines 191-220).  One request of each runs beside one POST /create;     *)
(* the steps of the three interleave at their awaits.                      *)
(***************************************************************************)
\* The tokens a token exchange may hand out.
FreshTokens == {"token2"}

\* req.query.shop of a request that names no shop.
NoShop == "undefined"

\* What the token exchange of line 166 ends with: a 2xx answer (with or
\* without an access_token in its body) or a failure.
ExchangeOutcomes ==
  {[kind |-> "ok", access_token |-> t] : t \in FreshTokens \cup {NoToken}}
    \cup {[kind |-> "failed"]}

handlerVars ==
  <<input, pc, normalized, expanded, media, tagsOut, mutation,
    shop, accessToken, calls, productData, mediaResponse, responses>>

\* src/index.js lines 158-166: the HMAC check and the start of the exchange.
CallbackReceived ==
  /\ callback.pc = "idle"
  /\ \E s \in Shops, verified \in BOOLEAN :
       callback' = IF verified
                   THEN [pc |-> "exchanging", shop |-> s]
                   ELSE [pc |-> "done", shop |-> s, status |-> 400]
  /\ UNCHANGED <<handlerVars, accessTokens, authenticated>>

\* src/index.js lines 166-189: the exchange returns.
CallbackReturns ==
  /\ callback.pc = "exchanging"
  /\ \E o \in ExchangeOutcomes :
       IF o.kind = "ok"
       THEN /\ accessTokens' =
                 [accessTokens EXCEPT ![callback.shop] = o.access_token]
            /\ callback' = [pc |-> "done", shop |-> callback.shop,
                            status |-> 302]
       ELSE /\ callback' = [pc |-> "done", shop |-> callback.shop,
                            status |-> 500]
            /\ UNCHANGED accessTokens
  /\ UNCHANGED <<handlerVars, authenticated>>

\* src/index.js lines 191-208: the lookup and the start of the validation.
AuthenticatedReceived ==
  /\ authenticated.pc = "idle"
  /\ \E s \in Shops \cup {NoShop} :
       authenticated' =
         IF s = NoShop THEN [pc |-> "done", status |-> 400]
         ELSE IF accessTokens[s] = NoToken
           THEN [pc |-> "done", shop |-> s, status |-> 200,
                 authenticated |-> FALSE]
         ELSE [pc |-> "validating", shop |-> s,
               accessToken |-> accessTokens[s]]
  /\ UNCHANGED <<handlerVars, accessTokens, callback>>

\* src/index.js lines 205-219: the validation call returns or fails.
AuthenticatedReturns ==
  /\ authenticated.pc = "validating"
  /\ \E valid \in BOOLEAN :
       /\ authenticated' = [pc |-> "done", shop |-> authenticated.shop,
                            accessToken |-> authenticated.accessToken,
                            status |-> 200, authenticated |-> valid]
       /\ accessTokens' =
            IF valid THEN accessTokens
            ELSE [accessTokens EXCEPT ![authenticated.shop] = NoToken]
  /\ UNCHANGED <<handlerVars, callback>>

\* The products of the request that runs beside the two: one without
\* media, one with media, one on which normalizeProductInput raises.
StoreInputs ==
  {BaseInput,
   [BaseInput EXCEPT !.media = Arr(<<MediaEntry(Str(S_http_c))>>)],
   [BaseInput EXCEPT
      !.attributes = Arr(<<[type |-> "object", name |-> Str(S_Color)]>>)]}

InitStore ==
  /\ input \in StoreInputs
  /\ shop = "shop1"
  /\ accessTokens \in [Shops -> Tokens \cup {NoToken}]
  /\ pc = "received"
  /\ normalized = NotYet
  /\ expanded = NotYet
  /\ media = NotYet
  /\ tagsOut = NotYet
  /\ mutation = NotYet
  /\ accessToken = NoToken
  /\ calls = <<>>
  /\ productData = NotYet
  /\ mediaResponse = NotYet
  /\ responses = <<>>
  /\ callback = Idle
  /\ authenticated = Idle

NextStore ==
  \/ CheckProduct
  \/ Normalize
  \/ Expand
  \/ BuildMedia
  \/ FormatTags
  \/ BuildMutation
  \/ Catch
  \/ CreateCall
  \/ CreateReturns
  \/ MediaReturns
  \/ CallbackReceived
  \/ CallbackReturns
  \/ AuthenticatedReceived
  \/ AuthenticatedReturns

SpecStore == InitStore /\ [][NextStore]_vars

(***************************************************************************)
(* Properties of the credential store.                                     *)
(***************************************************************************)
\* C28: no step of the POST /create handler changes the credential store,
\* on any of its paths, and a token is put into the store only by the step
\* of /shopify/callback that ends the token exchange.
C28_StoreReadOnly ==
  [][/\ handlerVars' # handlerVars => accessTokens' = accessTokens
     /\ \A s \in Shops :
          (accessTokens'[s] # accessTokens[s] /\ accessTokens'[s] # NoToken) =>
            /\ callback.pc = "exchanging"
            /\ callback'.pc = "done"
            /\ callback.shop = s]_vars

\* The request has been answered after its two calls, and meanwhile the
\* callback has stored a fresh token for the request's shop.
C28_Witness ==
  /\ pc = "done"
  /\ Len(calls) = 2
  /\ Len(responses) = 1
  /\ callback.pc = "done"
  /\ accessTokens[shop] \in FreshTokens

\* C30: when the validation call of /shopify/authenticated fails, the token
\* removed from the store is the one that was validated: a token stored for
\* the shop while the call was in flight stays in the store.
C30_FreshTokenKept ==
  [][(/\ authenticated.pc = "validating"
      /\ authenticated'.pc = "done"
      /\ ~authenticated'.authenticated
      /\ accessTokens[authenticated.shop] # authenticated.accessToken) =>
       accessTokens'[authenticated.shop] = accessTokens[authenticated.shop]]_vars

====
